---- MODULE Spec2Model ----
(***************************************************************************)
(* The fault-tolerance core of src/server.js: the rate gate (rateLimiter), *)
(* the timeout race (withTimeout) and the CircuitBreaker class, together   *)
(* with the protected operations that use them (getWeatherIntelligence,    *)
(* getARIMAForecasting).  Time is Date.now() in milliseconds.              *)
(*                                                                         *)
(* JavaScript runs one macrotask at a time and drains the promise          *)
(* continuations it queued before the next macrotask starts, so an action  *)
(* below is one macrotask together with its continuations: the entry of a  *)
(* call up to its first real suspension (a fetch), the completion of a     *)
(* fetch, or the expiry of a timer.                                        *)
(***************************************************************************)
EXTENDS Integers, FiniteSets, Sequences, TLC

\* ---- program constants ----
REQUEST_TIMEOUT == 30000       \* withTimeout(() => fn(), 30000) in call()
MIN_REQUEST_INTERVAL == 1000
MCP_THRESHOLD == 3
MCP_COOLDOWN == 30000
EXT_THRESHOLD == 5
EXT_COOLDOWN == 60000

\* ---- bounds of the model ----
MaxCalls == 5
MaxTicks == 3

\* Date.now() when the process starts.  lastRequestTime starts at 0 and the
\* real clock is far beyond MIN_REQUEST_INTERVAL, so the first check passes.
BootTime == MIN_REQUEST_INTERVAL

\* The amounts by which the clock is observed to advance between macrotasks:
\* just short of the rate gate's interval, exactly that interval, and the
\* length of the timeout (which is also the cooldown of mcp_tools).
Deltas == {MIN_REQUEST_INTERVAL - 1, MIN_REQUEST_INTERVAL, REQUEST_TIMEOUT}

BreakerKeys == {"mcp_tools", "external_apis"}
Operations == {"weather_intelligence", "arima_forecasting"}
\* the tools of the /stream handler: the protected operations, and
\* web_search for the tools that only pass the rate gate
Tools == Operations \cup {"web_search"}

VARIABLES
    now,              \* Date.now()
    lastRequestTime,  \* module-level let lastRequestTime
    circuitBreakers,  \* module-level const circuitBreakers: key -> breaker
    hasApiKey,        \* process.env.OPENWEATHER_API_KEY is set
    calls,            \* wrapped calls suspended in a fetch
    entered,          \* number of operations invoked so far
    ticks,            \* number of clock advances so far
    fnInvocations,    \* number of invocations of a wrapped function
    streak,           \* key -> failures applied since the last success
    last              \* what the most recent step returned or threw

\* One run of the body of getARIMAForecasting (lines 593-913)
VARIABLES
    fpc,              \* position in the run
    args,             \* location, hotelType and historicalData of the call
    today,            \* the date new Date() gives during the run
    hi,               \* loop index i of generateHistoricalData
    hpoint,           \* the record generateHistoricalData pushed last
    forecast,         \* const forecast of extremeSeasonalityARIMA
    seasonalPatterns, \* const seasonalPatterns of extremeSeasonalityARIMA
    fday,             \* the locals of the latest forecast loop iteration
    result,           \* const result
    second            \* a second call of extremeSeasonalityARIMA

svars == <<now, lastRequestTime, circuitBreakers, hasApiKey, calls, entered,
           ticks, fnInvocations, streak, last>>

fvars == <<fpc, args, today, hi, hpoint, forecast, seasonalPatterns, fday,
           result, second>>

vars == <<svars, fvars>>

\* ---- CircuitBreaker ----
CircuitBreaker(threshold, timeout) ==
    [failureCount |-> 0, threshold |-> threshold, timeout |-> timeout,
     state |-> "CLOSED", nextAttempt |-> BootTime]

\* onSuccess that closes the breaker but keeps the count
onSuccessKeepsCount(b) == [b EXCEPT !.state = "CLOSED"]

\* onSuccess without the return to CLOSED
onSuccessKeepsState(b) == [b EXCEPT !.failureCount = 0]

onSuccess(b) == [b EXCEPT !.failureCount = 0, !.state = "CLOSED"]

\* onFailure with the trip one failure late (> for >=)
onFailureLate(b, t) ==
    LET fc == b.failureCount + 1
    IN IF fc > b.threshold
       THEN [b EXCEPT !.failureCount = fc, !.state = "OPEN",
                      !.nextAttempt = t + b.timeout]
       ELSE [b EXCEPT !.failureCount = fc]

\* onFailure that stops counting once the breaker is OPEN
onFailureSaturating(b, t) ==
    IF b.state = "OPEN"
    THEN b
    ELSE LET fc == b.failureCount + 1
         IN IF fc >= b.threshold
            THEN [b EXCEPT !.failureCount = fc, !.state = "OPEN",
                           !.nextAttempt = t + b.timeout]
            ELSE [b EXCEPT !.failureCount = fc]

onFailure(b, t) ==
    LET fc == b.failureCount + 1
    IN IF fc >= b.threshold
       THEN [b EXCEPT !.failureCount = fc, !.state = "OPEN",
                      !.nextAttempt = t + b.timeout]
       ELSE [b EXCEPT !.failureCount = fc]

\* the guard with the comparison of the clock inverted
CircuitOpenInverted(b, t) == b.state = "OPEN" /\ t > b.nextAttempt

\* call(): the guard that throws the circuit-open error
CircuitOpen(b, t) == b.state = "OPEN" /\ t < b.nextAttempt

\* call() without the move to HALF_OPEN
AdmittedStaysOpen(b) == b

\* call() clearing the count when it moves to HALF_OPEN
AdmittedClearsCount(b) ==
    IF b.state = "OPEN" THEN [b EXCEPT !.state = "HALF_OPEN", !.failureCount = 0]
    ELSE b

\* call(): the breaker as the wrapped function sees it when it is invoked
Admitted(b) == IF b.state = "OPEN" THEN [b EXCEPT !.state = "HALF_OPEN"] ELSE b

\* ---- rate gate ----
\* the gate with <= for <
rateLimiterThrowsInclusive(t, lrt) == t - lrt <= MIN_REQUEST_INTERVAL

rateLimiterThrows(t, lrt) == t - lrt < MIN_REQUEST_INTERVAL

\* the gate recording the time of every call, rejected ones too
rateLimiterWritesAlways(t, lrt) == t

\* lastRequestTime after a rateLimiter() call at time t
rateLimiterWrites(t, lrt) == IF rateLimiterThrows(t, lrt) THEN lrt ELSE t

\* ---- protected operations ----
\* the breaker an operation passes its body to
BreakerOf(op) == "mcp_tools"

\* the operation's body suspends (awaits a fetch) after the rate gate: the
\* weather lookup when an API key is configured; the forecast is synchronous
Suspends(op, key) == op = "weather_intelligence" /\ key

\* the operation's synchronous body throws: location.toLowerCase() of the
\* forecast on a location that is no string; the simulated weather result
\* reads nothing of its arguments
Throws(op, wellFormed) == op = "arima_forecasting" /\ ~wellFormed

Racing == {c \in calls : c.phase = "racing"}
Abandoned == {c \in calls : c.phase = "abandoned"}

\* What a step hands back: the operation, how it ended, whether
\* CircuitBreaker.call was entered, and the breaker state in which the wrapped
\* function was invoked ("-" when it was not invoked).
Outcome(op, outcome, inCall, at) ==
    [op |-> op, outcome |-> outcome, inCall |-> inCall, at |-> at]

Init ==
    /\ now = BootTime
    /\ lastRequestTime = 0
    /\ circuitBreakers = [k \in BreakerKeys |->
                            IF k = "mcp_tools"
                            THEN CircuitBreaker(MCP_THRESHOLD, MCP_COOLDOWN)
                            ELSE CircuitBreaker(EXT_THRESHOLD, EXT_COOLDOWN)]
    /\ hasApiKey \in BOOLEAN
    /\ calls = {}
    /\ entered = 0
    /\ ticks = 0
    /\ fnInvocations = 0
    /\ streak = [k \in BreakerKeys |-> 0]
    /\ last = Outcome("none", "none", FALSE, "-")
    /\ fpc = "idle"
    /\ args = "none"
    /\ today = "none"
    /\ hi = 0
    /\ hpoint = "none"
    /\ forecast = <<>>
    /\ seasonalPatterns = <<>>
    /\ fday = "none"
    /\ result = "none"
    /\ second = [sameArray |-> FALSE, forecast |-> <<>>,
                 seasonalPatterns |-> <<>>]

\* The catch block of call() without its onFailure
SettleSwallows(k, b, ok) ==
    /\ circuitBreakers' = [circuitBreakers EXCEPT
                             ![k] = IF ok THEN onSuccess(b) ELSE b]
    /\ streak' = [streak EXCEPT ![k] = IF ok THEN 0 ELSE @ + 1]

\* The breaker after the wrapped function settled with `ok`, and the ghost
\* streak that follows it.
Settle(k, b, ok) ==
    /\ circuitBreakers' = [circuitBreakers EXCEPT
                             ![k] = IF ok THEN onSuccess(b) ELSE onFailure(b, now)]
    /\ streak' = [streak EXCEPT ![k] = IF ok THEN 0 ELSE @ + 1]

\* circuitBreakers[...].call(async () => { rateLimiter(); ... }, op), up to
\* the first suspension of the body.  lrt is lastRequestTime as the call
\* finds it; wellFormed: the location argument is a string.
Protected(op, wellFormed, lrt) ==
    LET k == BreakerOf(op)
        b == circuitBreakers[k]
        b1 == Admitted(b)
    IN IF CircuitOpen(b, now)
       THEN /\ last' = Outcome(op, "CircuitOpen", TRUE, "-")
            /\ lastRequestTime' = lrt
            /\ UNCHANGED <<circuitBreakers, calls, fnInvocations, streak>>
       ELSE /\ fnInvocations' = fnInvocations + 1
            /\ IF rateLimiterThrows(now, lrt)
               THEN /\ Settle(k, b1, FALSE)
                    /\ last' = Outcome(op, "RateLimit", TRUE, b1.state)
                    /\ lastRequestTime' = rateLimiterWrites(now, lrt)
                    /\ UNCHANGED calls
               ELSE /\ lastRequestTime' = rateLimiterWrites(now, lrt)
                    /\ IF Suspends(op, hasApiKey)
                       THEN /\ calls' = calls \cup
                                  {[start |-> now, phase |-> "racing", op |-> op,
                                    trial |-> b1.state = "HALF_OPEN"]}
                            /\ circuitBreakers' =
                                  [circuitBreakers EXCEPT ![k] = b1]
                            /\ last' = Outcome(op, "pending", TRUE, b1.state)
                            /\ UNCHANGED streak
                       ELSE /\ Settle(k, b1, ~Throws(op, wellFormed))
                            /\ last' = Outcome(op,
                                  IF Throws(op, wellFormed)
                                  THEN "ComputationFailed"
                                  ELSE "returned", TRUE, b1.state)
                            /\ UNCHANGED calls

\* getWeatherIntelligence / getARIMAForecasting is invoked.
Call(op, wellFormed) ==
    /\ entered < MaxCalls
    /\ entered' = entered + 1
    /\ Protected(op, wellFormed, lastRequestTime)
    /\ UNCHANGED <<now, hasApiKey, ticks>>
    /\ UNCHANGED fvars

\* A tools/call request reaches the /stream handler: the handler passes the
\* rate gate itself and then, for a protected tool, invokes the operation.
Stream(tool, wellFormed) ==
    /\ entered < MaxCalls
    /\ entered' = entered + 1
    /\ UNCHANGED <<now, hasApiKey, ticks>>
    /\ UNCHANGED fvars
    /\ IF rateLimiterThrows(now, lastRequestTime)
       THEN /\ last' = Outcome(tool, "RateLimit", FALSE, "-")
            /\ lastRequestTime' = rateLimiterWrites(now, lastRequestTime)
            /\ UNCHANGED <<circuitBreakers, calls, fnInvocations, streak>>
       ELSE IF tool \in Operations
            THEN Protected(tool, wellFormed,
                           rateLimiterWrites(now, lastRequestTime))
            ELSE /\ lastRequestTime' = rateLimiterWrites(now, lastRequestTime)
                 /\ last' = Outcome(tool, "returned", FALSE, "-")
                 /\ UNCHANGED <<circuitBreakers, calls, fnInvocations, streak>>

\* The fetch of a racing call completes and the body returns its result.
FnResolve(c) ==
    /\ c \in Racing
    /\ calls' = calls \ {c}
    /\ Settle(BreakerOf(c.op), circuitBreakers[BreakerOf(c.op)], TRUE)
    /\ last' = Outcome(c.op, "returned", TRUE, "-")
    /\ UNCHANGED <<now, lastRequestTime, hasApiKey, entered, ticks, fnInvocations>>
    /\ UNCHANGED fvars

\* The fetch of a racing call fails and the body rethrows.
FnReject(c) ==
    /\ c \in Racing
    /\ calls' = calls \ {c}
    /\ Settle(BreakerOf(c.op), circuitBreakers[BreakerOf(c.op)], FALSE)
    /\ last' = Outcome(c.op, "Rejected", TRUE, "-")
    /\ UNCHANGED <<now, lastRequestTime, hasApiKey, entered, ticks, fnInvocations>>
    /\ UNCHANGED fvars

\* The 30 s timer of withTimeout fires first: the race rejects, the body
\* keeps running.
Timeout(c) ==
    /\ c \in Racing
    /\ now >= c.start + REQUEST_TIMEOUT
    /\ calls' = (calls \ {c}) \cup {[c EXCEPT !.phase = "abandoned"]}
    /\ Settle(BreakerOf(c.op), circuitBreakers[BreakerOf(c.op)], FALSE)
    /\ last' = Outcome(c.op, "Timeout", TRUE, "-")
    /\ UNCHANGED <<now, lastRequestTime, hasApiKey, entered, ticks, fnInvocations>>
    /\ UNCHANGED fvars

\* A late settlement that still reaches the breaker's onSuccess
LateSettleApplies(c) ==
    /\ c \in Abandoned
    /\ calls' = calls \ {c}
    /\ Settle(BreakerOf(c.op), circuitBreakers[BreakerOf(c.op)], TRUE)
    /\ last' = Outcome(c.op, "discarded", FALSE, "-")
    /\ UNCHANGED <<now, lastRequestTime, hasApiKey, entered, ticks, fnInvocations>>
    /\ UNCHANGED fvars

\* The body of a call that already timed out settles: Promise.race has
\* settled, nothing is listening any more.
LateSettle(c) ==
    /\ c \in Abandoned
    /\ calls' = calls \ {c}
    /\ last' = Outcome(c.op, "discarded", FALSE, "-")
    /\ UNCHANGED <<now, lastRequestTime, circuitBreakers, hasApiKey, entered,
                   ticks, fnInvocations, streak>>
    /\ UNCHANGED fvars

\* The clock advances; a timer that is due fires before the clock passes it.
Tick(d) ==
    /\ ticks < MaxTicks
    /\ \A c \in Racing : now + d <= c.start + REQUEST_TIMEOUT
    /\ now' = now + d
    /\ ticks' = ticks + 1
    /\ last' = Outcome("none", "none", FALSE, "-")
    /\ UNCHANGED <<lastRequestTime, circuitBreakers, hasApiKey, calls, entered,
                   fnInvocations, streak>>
    /\ UNCHANGED fvars

Next ==
    \/ \E op \in Operations, wellFormed \in BOOLEAN : Call(op, wellFormed)
    \/ \E tool \in Tools, wellFormed \in BOOLEAN : Stream(tool, wellFormed)
    \/ \E c \in calls : FnResolve(c)
    \/ \E c \in calls : FnReject(c)
    \/ \E c \in calls : Timeout(c)
    \/ \E c \in calls : LateSettle(c)
    \/ \E d \in Deltas : Tick(d)

Spec == Init /\ [][Next]_vars

\* ---- getARIMAForecasting: inputs ----
\* generateHistoricalData's fractions (base occupancy, noise) are kept in
\* thousandths of a percentage point. The numbers of extremeSeasonalityARIMA
\* are exact fractions num / den, or NaN.
Number(v) == [nan |-> FALSE, num |-> v, den |-> 1]
NaN == [nan |-> TRUE, num |-> 0, den |-> 1]

\* the names location.toLowerCase() is searched for
RegionNames ==
    {"salento", "armenia", "quindio", "pereira", "manizales", "montenegro",
     "filandia", "circasia", "calarca", "la tebaida", "dosquebradas",
     "santa rosa", "marsella", "belen de umbria", "chinchina", "palestina",
     "villamaria", "neira", "parque del cafe", "panaca", "recuca", "colombia"}

\* locations a caller passes: each is a single place name
Locations == {"Salento", "Cartagena"}

toLowerCase(location) ==
    CASE location = "Salento" -> "salento"
      [] location = "Cartagena" -> "cartagena"

isColombianCoffeeRegion(location) == toLowerCase(location) \in RegionNames

HotelTypes == {"hostel", "5_star", "finca_cafetera", "4_star"}

\* default of the parameter months of generateHistoricalData
months == 24
\* default of the parameter forecastDays of extremeSeasonalityARIMA
forecastDays == 30
\* entries of the slice the autoregressive component is taken over
RecentWindow == 14
\* distance of the seasonal look-back
YearAgo == 365

\* values of the sequence Math.random() yields: randomNoise =
\* (Math.random() - 0.5) * 6 lies in [-3, 3), here in thousandths
NoiseSamples == <<-3000, -2000, -500, 0, 499, 1500, 2999>>
Seeds == {0, 1, 2}
randomNoise(seed, i) ==
    NoiseSamples[((3 * i + (i \div 7) + seed) % Len(NoiseSamples)) + 1]

\* the series a caller may pass as historicalData, by length and shape
SuppliedLengths == {0, 1, 13, 14, 15, 100, 364, 365, 366, 400}
SuppliedShapes == {"zeros", "hundreds", "ramp"}
supplied(shape, j) ==
    CASE shape = "zeros" -> 0
      [] shape = "hundreds" -> 100
      [] shape = "ramp" -> 20 + (j % 50)

HistoricalData ==
    [kind : {"generated"}, seed : Seeds, length : {months * 30}]
    \cup [kind : {"supplied"}, shape : SuppliedShapes, length : SuppliedLengths]

\* the dates a run may happen on: day of the year and length of that year
Todays ==
    [dayOfYear : {20, 85, 125, 175, 245, 320, 340}, yearLength : {365}]
    \cup [dayOfYear : {340}, yearLength : {366}]

\* ---- generateHistoricalData ----
isWeekend(i) == i % 7 = 5 \/ i % 7 = 6

HighBand(dayOfYear) ==
    \/ dayOfYear >= 350 \/ dayOfYear <= 31
    \/ (dayOfYear >= 180 /\ dayOfYear <= 210)
    \/ (dayOfYear >= 90 /\ dayOfYear <= 110)

MediumBand(dayOfYear) ==
    \/ (dayOfYear >= 120 /\ dayOfYear <= 150)
    \/ (dayOfYear >= 240 /\ dayOfYear <= 270)

RainBand(dayOfYear) ==
    \/ (dayOfYear >= 90 /\ dayOfYear <= 150)
    \/ (dayOfYear >= 274 /\ dayOfYear <= 334)

\* 15 * Math.sin((dayOfYear / 365) * 2 * Math.PI) in thousandths, to the
\* hundredth, by Bhaskara's rational approximation of the sine (within
\* 0.002 of it)
sine15(dayOfYear) ==
    LET d == dayOfYear
        q == IF 2 * d <= 365 THEN d * (365 - 2 * d)
                             ELSE (2 * d - 365) * (365 - d)
        m == 10 * ((48000 * q) \div (5 * 365 * 365 - 8 * q))
    IN IF 2 * d <= 365 THEN m ELSE 0 - m

\* baseOccupancy before the noise, in thousandths
baseOccupancy(coffee, i) ==
    LET dayOfYear == i % 365
        band == IF HighBand(dayOfYear) THEN 85
                ELSE IF MediumBand(dayOfYear)
                     THEN (IF isWeekend(i) THEN 70 ELSE 35)
                     ELSE 25
        weekendEffect == IF isWeekend(i)
                         THEN (IF band < 40 THEN 20 ELSE 10)
                         ELSE (IF band < 40 THEN -5 ELSE -8)
        rainPenalty == IF RainBand(dayOfYear) THEN -15 ELSE 0
    IN IF coffee THEN 1000 * (band + weekendEffect + rainPenalty)
                 ELSE 75000 + sine15(dayOfYear)

Max(a, b) == IF a >= b THEN a ELSE b
Min(a, b) == IF a <= b THEN a ELSE b

\* finalOccupancy without the lower clamp
finalOccupancyNoFloor(coffee, seed, i) ==
    Min(95000, baseOccupancy(coffee, i) + randomNoise(seed, i))

\* finalOccupancy, in thousandths
finalOccupancy(coffee, seed, i) ==
    Max(10000, Min(95000, baseOccupancy(coffee, i) + randomNoise(seed, i)))

\* Math.round of a value given in thousandths: floor(x + 0.5)
roundMilli(x) == (x + 500) \div 1000

\* the record data.push receives for loop index i
dataPoint(location, hotelType, seed, i) ==
    LET coffee == isColombianCoffeeRegion(location)
        final == finalOccupancy(coffee, seed, i)
        base == IF hotelType = "hostel" THEN 180000
                ELSE IF hotelType = "finca_cafetera" THEN 250000
                ELSE 320000
    IN [occupancy |-> roundMilli(final),
        adr |-> IF coffee THEN base + ((5 * (final - 45000) + 1) \div 2)
                          ELSE 280 + ((8 * (final - 75000) + 500) \div 1000),
        season |-> IF final > 75000 THEN "HIGH"
                   ELSE IF final > 50000 THEN "MEDIUM" ELSE "LOW"]

\* occupancyHistory[j]: data.map(d => d.occupancy) of the generated or the
\* supplied data
occupancyHistory(a, j) ==
    IF a.historicalData.kind = "generated"
    THEN dataPoint(a.location, a.hotelType, a.historicalData.seed, j).occupancy
    ELSE supplied(a.historicalData.shape, j)

\* ---- extremeSeasonalityARIMA ----
\* historicalOccupancy[j] in iteration Len(fc): the array passed in, followed
\* by the predictions pushed onto it so far. An array of kind "array" is one
\* an earlier call was given: the history h.of followed by what that call
\* pushed.
historicalOccupancy(a, fc, j) ==
    LET h == a.historicalData
    IN IF j >= h.length THEN fc[j - h.length + 1]
       ELSE IF h.kind = "array"
       THEN (IF j < h.of.historicalData.length
             THEN Number(occupancyHistory(h.of, j))
             ELSE h.pushed[j - h.of.historicalData.length + 1])
       ELSE Number(occupancyHistory(a, j))

\* dayOfYear of today + i
dayOfYearAt(t, i) ==
    IF t.dayOfYear + i > t.yearLength
    THEN t.dayOfYear + i - t.yearLength
    ELSE t.dayOfYear + i

\* seasonType of iteration i
seasonTypeAt(dayOfYear, i) ==
    IF HighBand(dayOfYear) THEN "HIGH"
    ELSE IF MediumBand(dayOfYear) /\ isWeekend(i) THEN "MEDIUM"
    ELSE "LOW"

\* seasonalMultiplier, in tenths
seasonalMultiplier(seasonType) ==
    CASE seasonType = "HIGH" -> 18
      [] seasonType = "MEDIUM" -> 13
      [] seasonType = "LOW" -> 6

\* the factor (1 - idx * 0.05) of the reduce callback, in twentieths
weight(idx) == 20 - idx

\* the sum the reduce callback has built after the first k entries of the
\* slice starting at index from: a number of twentieths, or NaN
RECURSIVE reduce(_, _, _, _)
reduce(a, fc, from, k) ==
    IF k = 0 THEN Number(0)
    ELSE LET sum == reduce(a, fc, from, k - 1)
             val == historicalOccupancy(a, fc, from + k - 1)
         IN IF sum.nan \/ val.nan THEN NaN
            ELSE Number(sum.num + val.num * weight(k - 1))

\* arComponent: the reduced sum over recent14.length (0 / 0 is NaN)
arComponent(a, fc) ==
    LET len == a.historicalData.length + Len(fc)
        L == Min(RecentWindow, len)
        sum == reduce(a, fc, len - L, L)
    IN IF L = 0 \/ sum.nan THEN NaN
       ELSE [nan |-> FALSE, num |-> sum.num, den |-> 20 * L]

yearAgoIndex(n, i) == Max(0, n - YearAgo + i)

\* Math.round(0.3 * ar + 0.5 * (seasonal * multiplier) + 0.2 * weekendBoost
\* + rainPenalty), the multiplier in tenths; Math.round(x) is floor(x + 0.5)
prediction(ar, seasonal, multiplier, weekendBoost, rainPenalty) ==
    IF ar.nan \/ seasonal.nan THEN NaN
    ELSE LET d == 20 * ar.den * seasonal.den
             n == 6 * ar.num * seasonal.den
                  + seasonal.num * multiplier * ar.den
                  + 4 * weekendBoost * ar.den * seasonal.den
                  + 20 * rainPenalty * ar.den * seasonal.den
         IN Number((2 * n + d) \div (2 * d))

\* Math.max(15, Math.min(95, prediction)): NaN stays NaN
finalPrediction(p) ==
    IF p.nan THEN NaN ELSE Number(Max(15, Min(95, p.num)))

\* the locals of loop iteration i = Len(fc)
iteration(a, t, fc) ==
    LET i == Len(fc)
        n == a.historicalData.length
        dayOfYear == dayOfYearAt(t, i)
        seasonType == seasonTypeAt(dayOfYear, i)
        L == Min(RecentWindow, n + i)
        ar == arComponent(a, fc)
        yearAgo == yearAgoIndex(n, i)
        fromHistory == yearAgo < n
        seasonal == IF fromHistory THEN historicalOccupancy(a, fc, yearAgo)
                    ELSE ar
        weekendBoost == IF isWeekend(i)
                        THEN (IF seasonType = "LOW" THEN 25 ELSE 12)
                        ELSE -8
        rainPenalty == IF RainBand(dayOfYear) THEN -12 ELSE 0
        p == prediction(ar, seasonal, seasonalMultiplier(seasonType),
                        weekendBoost, rainPenalty)
    IN [i |-> i, n |-> n, dayOfYear |-> dayOfYear, seasonType |-> seasonType,
        seasonalMultiplier |-> seasonalMultiplier(seasonType),
        recentFrom |-> n + i - L,
        weights |-> [k \in 1..L |-> weight(k - 1)],
        arComponent |-> ar,
        yearAgoIndex |-> yearAgo, fromHistory |-> fromHistory,
        seasonalComponent |-> seasonal,
        weekendBoost |-> weekendBoost, rainPenalty |-> rainPenalty,
        prediction |-> p, finalPrediction |-> finalPrediction(p)]

\* ---- getARIMAForecasting: analysis of the forecast ----
\* occ < k and occ > k as JavaScript evaluates them: false for NaN
lt(occ, k) == ~occ.nan /\ occ.num < k
gt(occ, k) == ~occ.nan /\ occ.num > k

\* the days pushed onto lowOccupancyPeriods and highOccupancyPeriods
lowOccupancyPeriods(fc) == {k \in 1..Len(fc) : lt(fc[k], 40)}
highOccupancyPeriods(fc) == {k \in 1..Len(fc) : gt(fc[k], 80)}

\* .filter(day => day.is_critical)
RECURSIVE filter(_)
filter(seq) ==
    IF seq = <<>> THEN <<>>
    ELSE IF Head(seq).is_critical THEN <<Head(seq)>> \o filter(Tail(seq))
         ELSE filter(Tail(seq))

baseADR(location, hotelType) ==
    IF isColombianCoffeeRegion(location)
    THEN (IF hotelType = "hostel" THEN 180000
          ELSE IF hotelType = "5_star" THEN 450000
          ELSE IF hotelType = "finca_cafetera" THEN 250000
          ELSE 320000)
    ELSE 280

\* priceMultiplier, in hundredths
priceMultiplier(season, occ) ==
    IF season = "HIGH" THEN 140
    ELSE IF season = "MEDIUM" THEN 110
    ELSE IF lt(occ, 25) THEN 65
    ELSE IF lt(occ, 40) THEN 80
    ELSE 90

strategy(season, occ) ==
    IF season = "HIGH" THEN "MAXIMIZE_REVENUE"
    ELSE IF season = "MEDIUM" THEN "OPTIMIZE_MIX"
    ELSE IF lt(occ, 25) THEN "SURVIVAL_PRICING"
    ELSE IF lt(occ, 40) THEN "FILL_INVENTORY"
    ELSE "COMPETITIVE_RATE"

\* Math.round(base * hundredths / 100)
roundHundredths(base, hundredths) == (base * hundredths + 50) \div 100

pricingRecommendations(a, fc, sp) ==
    [index \in 1..Len(fc) |->
        [day |-> index,
         predicted_occupancy |-> fc[index],
         season_type |-> sp[index],
         pricing_strategy |-> strategy(sp[index], fc[index]),
         recommended_adr |->
            roundHundredths(baseADR(a.location, a.hotelType),
                            priceMultiplier(sp[index], fc[index])),
         revenue_focus |-> IF sp[index] = "LOW" THEN "VOLUME" ELSE "YIELD"]]

\* is_critical with the limit included (<= 30)
is_criticalInclusive(occ) == lt(occ, 31)

is_critical(occ) == lt(occ, 30)

criticalPeriods(a, fc) ==
    LET all == [index \in 1..Len(fc) |->
                  [day |-> index,
                   occupancy |-> fc[index],
                   is_critical |-> is_critical(fc[index]),
                   survival_rate |->
                      roundHundredths(baseADR(a.location, a.hotelType), 65),
                   break_even_occupancy |-> 28]]
    IN filter(all)

\* next_7_days carrying every pricing record
next_7_daysAll(pricing) == pricing

\* pricingRecommendations.slice(0, 7)
next_7_days(pricing) == SubSeq(pricing, 1, Min(7, Len(pricing)))

\* cash_flow_priority with the limit included (>= 10)
cash_flow_priorityInclusive(c) == IF c >= 10 THEN "CRITICO" ELSE "ESTABLE"

\* revenue_optimization.cash_flow_priority for c critical days
cash_flow_priority(c) == IF c > 10 THEN "CRITICO" ELSE "ESTABLE"

\* actionable_recommendations[0] for h high-occupancy days
highSeasonRecommendation(h) ==
    IF h > 7 THEN "TEMPORADA ALTA DETECTADA" ELSE "Sin picos altos"

\* actionable_recommendations[1] for c critical days
criticalRecommendation(c) ==
    IF c > 15 THEN "PERIODO CRITICO EXTREMO"
    ELSE IF c > 5 THEN "Periodo desafiante"
    ELSE "Temporada manejable"

\* actionable_recommendations[2] for l low-occupancy days
survivalRecommendation(l) ==
    IF l > 20 THEN "ESTRATEGIA SUPERVIVENCIA" ELSE "ESTRATEGIA CRECIMIENTO"

\* actionable_recommendations[3] for c critical days
operationsRecommendation(c) ==
    IF c > 10 THEN "AJUSTE OPERATIVO" ELSE "OPTIMIZACION"

Result(a, fc, sp) ==
    LET critical == criticalPeriods(a, fc)
        high == Cardinality(highOccupancyPeriods(fc))
        low == Cardinality(lowOccupancyPeriods(fc))
    IN [forecast_summary |->
          [location |-> a.location,
           coffee_region_detected |-> isColombianCoffeeRegion(a.location),
           high_season_days |-> high,
           low_season_days |-> low,
           critical_survival_days |-> Len(critical)],
        next_7_days |-> next_7_days(pricingRecommendations(a, fc, sp)),
        critical_periods_analysis |-> critical,
        revenue_optimization |->
          [cash_flow_priority |-> cash_flow_priority(Len(critical))],
        actionable_recommendations |->
          <<highSeasonRecommendation(high),
            criticalRecommendation(Len(critical)),
            survivalRecommendation(low),
            operationsRecommendation(Len(critical))>>,
        survival_metrics |->
          [days_requiring_survival_pricing |-> Len(critical)]]

\* ---- getARIMAForecasting: the run ----
ForecastInit ==
    /\ now = BootTime
    /\ lastRequestTime = 0
    /\ circuitBreakers = [k \in BreakerKeys |->
                            IF k = "mcp_tools"
                            THEN CircuitBreaker(MCP_THRESHOLD, MCP_COOLDOWN)
                            ELSE CircuitBreaker(EXT_THRESHOLD, EXT_COOLDOWN)]
    /\ hasApiKey = FALSE
    /\ calls = {}
    /\ entered = 0
    /\ ticks = 0
    /\ fnInvocations = 0
    /\ streak = [k \in BreakerKeys |-> 0]
    /\ last = Outcome("none", "none", FALSE, "-")
    /\ args \in [location : Locations, hotelType : HotelTypes,
                 historicalData : HistoricalData]
    /\ fpc = IF args.historicalData.kind = "generated" THEN "generate"
             ELSE "ready"
    /\ today = "none"
    /\ hi = 0
    /\ hpoint = "none"
    /\ forecast = <<>>
    /\ seasonalPatterns = <<>>
    /\ fday = "none"
    /\ result = "none"
    /\ second = [sameArray |-> FALSE, forecast |-> <<>>,
                 seasonalPatterns |-> <<>>]

\* one iteration of the loop of generateHistoricalData
Generate ==
    /\ fpc = "generate"
    /\ hi < months * 30
    /\ hpoint' = dataPoint(args.location, args.hotelType,
                           args.historicalData.seed, hi)
    /\ hi' = hi + 1
    /\ fpc' = IF hi' = months * 30 THEN "ready" ELSE "generate"
    /\ UNCHANGED <<args, today, forecast, seasonalPatterns, fday, result,
                   second>>
    /\ UNCHANGED svars

\* extremeSeasonalityARIMA(occupancyHistory) is entered on the date t
Forecast(t) ==
    /\ fpc = "ready"
    /\ today' = t
    /\ fpc' = "forecast"
    /\ UNCHANGED <<args, hi, hpoint, forecast, seasonalPatterns, fday, result,
                   second>>
    /\ UNCHANGED svars

\* one iteration of the loop of extremeSeasonalityARIMA
ForecastDay ==
    /\ fpc = "forecast"
    /\ Len(forecast) < forecastDays
    /\ fday' = iteration(args, today, forecast)
    /\ forecast' = Append(forecast, fday'.finalPrediction)
    /\ seasonalPatterns' = Append(seasonalPatterns, fday'.seasonType)
    /\ fpc' = IF Len(forecast') = forecastDays THEN "analyze" ELSE "forecast"
    /\ UNCHANGED <<args, today, hi, hpoint, result, second>>
    /\ UNCHANGED svars

\* the rest of the function: periods, pricing, critical days, result
Analyze ==
    /\ fpc = "analyze"
    /\ result' = Result(args, forecast, seasonalPatterns)
    /\ fpc' = "done"
    /\ UNCHANGED <<args, today, hi, hpoint, forecast, seasonalPatterns, fday,
                   second>>
    /\ UNCHANGED svars

\* the argument of the second call: the array the first call was given, or
\* a fresh array with the same history
secondArgs ==
    IF second.sameArray
    THEN [args EXCEPT !.historicalData =
              [kind |-> "array",
               length |-> args.historicalData.length + Len(forecast),
               of |-> args, pushed |-> forecast]]
    ELSE args

\* extremeSeasonalityARIMA is called a second time, on the same date. Its
\* only inputs are the array and the date, so the second call is explored
\* for one location and one hotel type.
ForecastAgain(sameArray) ==
    /\ fpc = "done"
    /\ args.location = "Salento"
    /\ args.hotelType = "4_star"
    /\ second' = [sameArray |-> sameArray, forecast |-> <<>>,
                  seasonalPatterns |-> <<>>]
    /\ fpc' = "again"
    /\ UNCHANGED <<args, today, hi, hpoint, forecast, seasonalPatterns, fday,
                   result>>
    /\ UNCHANGED svars

\* one iteration of the loop of the second call
AgainDay ==
    /\ fpc = "again"
    /\ Len(second.forecast) < forecastDays
    /\ LET day == iteration(secondArgs, today, second.forecast)
       IN second' = [second EXCEPT
                       !.forecast = Append(@, day.finalPrediction),
                       !.seasonalPatterns = Append(@, day.seasonType)]
    /\ fpc' = IF Len(second'.forecast) = forecastDays THEN "repeated"
              ELSE "again"
    /\ UNCHANGED <<args, today, hi, hpoint, forecast, seasonalPatterns, fday,
                   result>>
    /\ UNCHANGED svars

ForecastNext ==
    \/ Generate
    \/ \E t \in Todays : Forecast(t)
    \/ ForecastDay
    \/ Analyze
    \/ \E sameArray \in BOOLEAN : ForecastAgain(sameArray)
    \/ AgainDay

ForecastSpec == ForecastInit /\ [][ForecastNext]_vars

\* ---- recovery: the breaker under calls that never stop ----
\* Calls arrive without end, so times are kept relative to the clock: when d
\* ms pass, `now` stays and every stored timestamp moves d ms into the past.
\* A timestamp the code only compares with the clock stops ageing once the
\* comparison is settled: lastRequestTime at MIN_REQUEST_INTERVAL ago,
\* nextAttempt at now, the start of a call whose timer has fired at
\* REQUEST_TIMEOUT ago.  The counters of started calls are not kept.

\* failures in a row that are followed, the ones still possible included
MaxFailures == 5
\* calls awaiting their fetch at one time
MaxInFlight == 2
\* the times that pass between two events: half and all of the 30 s of the
\* timer and of the cooldown, either of them longer than the rate gate's
\* interval (two calls with no pause between them meet the closed gate)
Pauses == {REQUEST_TIMEOUT \div 2, REQUEST_TIMEOUT}

\* circuitBreakers.mcp_tools.call(async () => { rateLimiter(); ... }, op), up
\* to the first suspension of the body
Arrive(op, wellFormed) ==
    LET k == BreakerOf(op)
        b == circuitBreakers[k]
        b1 == Admitted(b)
        gate == rateLimiterThrows(now, lastRequestTime)
        pending == Cardinality(Racing)
    IN /\ UNCHANGED <<now, hasApiKey, entered, ticks, fnInvocations>>
       /\ UNCHANGED fvars
       /\ IF CircuitOpen(b, now)
          THEN /\ last' = Outcome(op, "CircuitOpen", TRUE, "-")
               /\ UNCHANGED <<lastRequestTime, circuitBreakers, calls, streak>>
          ELSE /\ lastRequestTime' = rateLimiterWrites(now, lastRequestTime)
               /\ IF gate
                  THEN /\ b.failureCount + pending < MaxFailures
                       /\ Settle(k, b1, FALSE)
                       /\ last' = Outcome(op, "RateLimit", TRUE, b1.state)
                       /\ UNCHANGED calls
                  ELSE IF Suspends(op, hasApiKey)
                  THEN /\ b.failureCount + pending < MaxFailures
                       /\ pending < MaxInFlight
                       /\ calls' = calls \cup
                             {[start |-> now, phase |-> "racing", op |-> op,
                               trial |-> b1.state = "HALF_OPEN"]}
                       /\ circuitBreakers' = [circuitBreakers EXCEPT ![k] = b1]
                       /\ last' = Outcome(op, "pending", TRUE, b1.state)
                       /\ UNCHANGED streak
                  ELSE /\ Throws(op, wellFormed)
                          => b.failureCount + pending < MaxFailures
                       /\ Settle(k, b1, ~Throws(op, wellFormed))
                       /\ last' = Outcome(op,
                             IF Throws(op, wellFormed)
                             THEN "ComputationFailed"
                             ELSE "returned", TRUE, b1.state)
                       /\ UNCHANGED calls

\* d ms pass; a timer that is due fires before the clock passes it
Elapse(d) ==
    /\ \A c \in Racing : now <= (c.start - d) + REQUEST_TIMEOUT
    /\ lastRequestTime' = Max(lastRequestTime - d, now - MIN_REQUEST_INTERVAL)
    /\ circuitBreakers' =
          [k \in BreakerKeys |->
              [circuitBreakers[k] EXCEPT !.nextAttempt = Max(@ - d, now)]]
    /\ calls' = {[c EXCEPT !.start = Max(@ - d, now - REQUEST_TIMEOUT)] :
                   c \in calls}
    /\ last' = Outcome("none", "none", FALSE, "-")
    /\ UNCHANGED <<now, hasApiKey, entered, ticks, fnInvocations, streak>>
    /\ UNCHANGED fvars

\* the race of a call in flight settles: its fetch completes or fails, or
\* the timer of withTimeout fires
RaceSettles == \E c \in calls : FnResolve(c) \/ FnReject(c) \/ Timeout(c)

RecoveryNext ==
    \/ \E op \in Operations, wellFormed \in BOOLEAN : Arrive(op, wellFormed)
    \/ \E d \in Pauses : Elapse(d)
    \/ \E c \in calls : FnResolve(c)
    \/ \E c \in calls : FnReject(c)
    \/ \E c \in calls : Timeout(c)
    \/ \E c \in calls : LateSettle(c)

\* Calls keep arriving and the clock keeps running; a fetch in flight ends,
\* and the timer of withTimeout fires at the latest 30 s after it was set.
RecoveryFairness ==
    /\ WF_vars(\E op \in Operations, wellFormed \in BOOLEAN :
                  Arrive(op, wellFormed))
    /\ WF_vars(\E d \in Pauses : Elapse(d))
    /\ WF_vars(RaceSettles)

RecoverySpec == Init /\ [][RecoveryNext]_vars /\ RecoveryFairness

\* ---- properties ----
\* the breaker that guards the forecasting operation
Forecasting == circuitBreakers[BreakerOf("arima_forecasting")]

\* a step in which an operation or a /stream request was started
Entry == entered' = entered + 1

\* the ways a wrapped function fails
Failures == {"RateLimit", "ComputationFailed", "Rejected", "Timeout"}

\* C1: starting CLOSED with failureCount 0, the breaker is still CLOSED after
\* fewer than `threshold` consecutive failures, and the failure that makes
\* the streak equal to `threshold` leaves it OPEN with nextAttempt = the time
\* of that failure + cooldown.
C1_ThresholdTrips ==
    /\ [](\A k \in BreakerKeys :
            streak[k] < circuitBreakers[k].threshold
                => circuitBreakers[k].state = "CLOSED")
    /\ [][\A k \in BreakerKeys :
            (streak'[k] = streak[k] + 1 /\ streak'[k] = circuitBreakers[k].threshold)
                => /\ circuitBreakers[k].state = "CLOSED"
                   /\ circuitBreakers'[k].state = "OPEN"
                   /\ circuitBreakers'[k].nextAttempt
                          = now + circuitBreakers[k].timeout]_vars

C1_Witness ==
    /\ streak["mcp_tools"] = MCP_THRESHOLD
    /\ last.outcome \in Failures
    /\ Forecasting.state = "OPEN"
    /\ Forecasting.nextAttempt = now + MCP_COOLDOWN

\* C2: a call() entered while the breaker is OPEN and now < nextAttempt does
\* not invoke the wrapped function, throws the circuit-open error and leaves
\* the breaker as it was.
C2_OpenRejects ==
    [][(/\ Entry
        /\ last'.inCall
        /\ circuitBreakers[BreakerOf(last'.op)].state = "OPEN"
        /\ now < circuitBreakers[BreakerOf(last'.op)].nextAttempt)
            => /\ fnInvocations' = fnInvocations
               /\ last'.outcome = "CircuitOpen"
               /\ circuitBreakers' = circuitBreakers]_vars

C2_Witness ==
    /\ last.outcome = "CircuitOpen"
    /\ Forecasting.state = "OPEN"
    /\ now < Forecasting.nextAttempt
    /\ fnInvocations < entered

\* C3: a call() entered while the breaker is OPEN and now >= nextAttempt
\* invokes the wrapped function with the breaker in HALF_OPEN, and a trial
\* that succeeds leaves the breaker CLOSED with failureCount 0.
C3_CooldownTrial ==
    [][/\ (/\ Entry
           /\ last'.inCall
           /\ circuitBreakers[BreakerOf(last'.op)].state = "OPEN"
           /\ now >= circuitBreakers[BreakerOf(last'.op)].nextAttempt)
              => /\ fnInvocations' = fnInvocations + 1
                 /\ last'.at = "HALF_OPEN"
                 /\ last'.outcome = "pending"
                      => circuitBreakers'[BreakerOf(last'.op)].state = "HALF_OPEN"
                 /\ last'.outcome = "returned"
                      => /\ circuitBreakers'[BreakerOf(last'.op)].state = "CLOSED"
                         /\ circuitBreakers'[BreakerOf(last'.op)].failureCount = 0
       /\ \A c \in Racing :
             (c.trial /\ c \notin calls' /\ last'.outcome = "returned")
                => /\ circuitBreakers'[BreakerOf(c.op)].state = "CLOSED"
                   /\ circuitBreakers'[BreakerOf(c.op)].failureCount = 0]_vars

C3_Witness ==
    /\ last.at = "HALF_OPEN"
    /\ last.outcome = "returned"
    /\ now >= BootTime + MCP_COOLDOWN
    /\ Forecasting.state = "CLOSED"
    /\ Forecasting.failureCount = 0
    /\ Forecasting.nextAttempt > BootTime

\* C4: the failure of a trial call (a call let through in HALF_OPEN) leaves
\* the breaker OPEN with nextAttempt = the time of that failure + cooldown.
C4_TrialFailureReopens ==
    [][/\ (Entry /\ last'.at = "HALF_OPEN" /\ last'.outcome \in Failures)
              => /\ circuitBreakers'[BreakerOf(last'.op)].state = "OPEN"
                 /\ circuitBreakers'[BreakerOf(last'.op)].nextAttempt
                        = now + circuitBreakers[BreakerOf(last'.op)].timeout
       /\ \A c \in Racing :
             (c.trial /\ c \notin calls' /\ last'.outcome \in Failures)
                => /\ circuitBreakers'[BreakerOf(c.op)].state = "OPEN"
                   /\ circuitBreakers'[BreakerOf(c.op)].nextAttempt
                          = now + circuitBreakers[BreakerOf(c.op)].timeout]_vars

\* C5: while the breaker is HALF_OPEN at most one trial call is in flight.
C5_SingleTrial ==
    \A k \in BreakerKeys :
        circuitBreakers[k].state = "HALF_OPEN"
            => Cardinality({c \in Racing : BreakerOf(c.op) = k /\ c.trial}) <= 1

\* C6: a racing call leaves the race by timeout only at its 30 s deadline;
\* the timeout throws the timeout error and applies onFailure once; the
\* later settlement of the abandoned call changes no breaker.
C6_TimeoutOnce ==
    [][\A c \in calls :
          /\ (c.phase = "racing" /\ c \notin calls'
                  /\ [c EXCEPT !.phase = "abandoned"] \in calls')
                => /\ now = c.start + REQUEST_TIMEOUT
                   /\ last'.outcome = "Timeout"
                   /\ circuitBreakers'[BreakerOf(c.op)].failureCount
                          = circuitBreakers[BreakerOf(c.op)].failureCount + 1
                   /\ streak'[BreakerOf(c.op)] = streak[BreakerOf(c.op)] + 1
          /\ (c.phase = "abandoned" /\ c \notin calls')
                => /\ circuitBreakers' = circuitBreakers
                   /\ streak' = streak]_vars

C6_Witness ==
    /\ last.outcome = "discarded"
    /\ Forecasting.state = "OPEN"
    /\ Forecasting.failureCount >= MCP_THRESHOLD

\* C7: failureCount is the number of failures applied since the last
\* success, whatever the interleaving of the calls in flight.
C7_NoLostIncrement ==
    \A k \in BreakerKeys : circuitBreakers[k].failureCount = streak[k]

C7_Witness ==
    /\ last.outcome \in {"Rejected", "Timeout"}
    /\ Racing # {}
    /\ Forecasting.state = "OPEN"
    /\ Forecasting.failureCount > MCP_THRESHOLD

\* C8: a forecast request rejected with the rate-limit error has not entered
\* the breaker and leaves the breakers unchanged.
C8_GateBeforeBreaker ==
    [][(Entry /\ last'.op = "arima_forecasting" /\ last'.outcome = "RateLimit")
          => /\ ~last'.inCall
             /\ circuitBreakers' = circuitBreakers]_vars

\* C9: a failure of the weather lookup's third-party API call (its fetch
\* rejects or runs into the timeout) leaves the breaker that guards
\* forecasting unchanged.
C9_WeatherFailureIsolated ==
    [][(last'.op = "weather_intelligence" /\ last'.outcome \in {"Rejected", "Timeout"})
          => Forecasting' = Forecasting]_vars

\* C10: a rateLimiter() call made less than MIN_REQUEST_INTERVAL after the
\* last accepted one throws and one made at least MIN_REQUEST_INTERVAL after
\* it is accepted, so accepted calls are at least MIN_REQUEST_INTERVAL apart.
\* (A call() that throws the circuit-open error has not reached the gate; a
\* /stream request for a protected tool reaches it twice, the second time at
\* the instant of the first.)
C10_RateGate ==
    [][/\ lastRequestTime' # lastRequestTime
            => /\ lastRequestTime' = now
               /\ now - lastRequestTime >= MIN_REQUEST_INTERVAL
       /\ (Entry /\ last'.outcome # "CircuitOpen"
                 /\ now - lastRequestTime < MIN_REQUEST_INTERVAL)
            => /\ last'.outcome = "RateLimit"
               /\ lastRequestTime' = lastRequestTime
       /\ (Entry /\ last'.outcome # "CircuitOpen"
                 /\ now - lastRequestTime >= MIN_REQUEST_INTERVAL)
            => lastRequestTime' = now
       /\ (Entry /\ last'.outcome = "RateLimit")
            => \/ now - lastRequestTime < MIN_REQUEST_INTERVAL
               \/ (last'.inCall /\ lastRequestTime' = now)]_vars

C10_Witness ==
    /\ last.outcome = "RateLimit"
    /\ lastRequestTime >= BootTime + MIN_REQUEST_INTERVAL
    /\ now - lastRequestTime = MIN_REQUEST_INTERVAL - 1

\* C11: a rejected rateLimiter() call leaves lastRequestTime as it was, and
\* lastRequestTime only ever changes to the current time, by a call the gate
\* accepts.
C11_RejectedLeavesGate ==
    [][/\ (Entry /\ last'.outcome = "RateLimit"
                 /\ now - lastRequestTime < MIN_REQUEST_INTERVAL)
            => lastRequestTime' = lastRequestTime
       /\ ~Entry => lastRequestTime' = lastRequestTime
       /\ lastRequestTime' \in {lastRequestTime, now}]_vars

C11_Witness ==
    /\ last.outcome = "RateLimit"
    /\ lastRequestTime >= BootTime
    /\ now - lastRequestTime = MIN_REQUEST_INTERVAL - 1

\* C12: a success in CLOSED resets failureCount to 0, and the breaker leaves
\* CLOSED only for OPEN and only by the failure that completes a run of
\* `threshold` failures with no success between them.
C12_OnlyFullRunTrips ==
    [][\A k \in BreakerKeys :
          /\ (circuitBreakers[k].state = "CLOSED" /\ streak'[k] = 0
                  /\ last'.outcome = "returned" /\ last'.inCall)
                => /\ circuitBreakers'[k].state = "CLOSED"
                   /\ circuitBreakers'[k].failureCount = 0
          /\ (circuitBreakers[k].state = "CLOSED"
                  /\ circuitBreakers'[k].state # "CLOSED")
                => /\ circuitBreakers'[k].state = "OPEN"
                   /\ last'.outcome \in Failures
                   /\ streak'[k] = streak[k] + 1
                   /\ streak'[k] >= circuitBreakers[k].threshold]_vars

C12_Witness ==
    /\ Forecasting.state = "CLOSED"
    /\ Forecasting.nextAttempt = BootTime
    /\ streak["mcp_tools"] = MCP_THRESHOLD - 1
    /\ fnInvocations > MCP_THRESHOLD
    /\ calls = {}

\* C13: a call() ends by returning after onSuccess, or by throwing: the
\* circuit-open error with the breaker untouched, or the timeout or the
\* wrapped function's error after exactly one onFailure; a call in flight
\* ends by its deadline at the latest.
C13_ReturnsOrThrows ==
    /\ [](\A c \in Racing : now <= c.start + REQUEST_TIMEOUT)
    /\ [][/\ last'.inCall
               => last'.outcome \in {"returned", "CircuitOpen", "pending"} \cup Failures
          /\ (last'.inCall /\ last'.outcome = "returned")
               => /\ circuitBreakers'[BreakerOf(last'.op)].failureCount = 0
                  /\ circuitBreakers'[BreakerOf(last'.op)].state = "CLOSED"
                  /\ streak'[BreakerOf(last'.op)] = 0
          /\ (last'.inCall /\ last'.outcome = "CircuitOpen")
               => /\ circuitBreakers' = circuitBreakers
                  /\ fnInvocations' = fnInvocations
                  /\ calls' = calls
          /\ (last'.inCall /\ last'.outcome \in Failures)
               => /\ circuitBreakers'[BreakerOf(last'.op)].failureCount
                        = circuitBreakers[BreakerOf(last'.op)].failureCount + 1
                  /\ streak'[BreakerOf(last'.op)] = streak[BreakerOf(last'.op)] + 1
          /\ \A c \in Racing :
               c \notin calls'
                 => last'.outcome \in {"returned", "Rejected", "Timeout"}]_vars

C13_Witness ==
    /\ last.inCall
    /\ last.outcome = "Rejected"
    /\ Forecasting.failureCount = 1
    /\ Forecasting.state = "CLOSED"

\* ---- properties of a forecast run ----
\* the forecast days whose occupancy is a number below the limit
DaysBelow(limit) ==
    {k \in 1..Len(forecast) : ~forecast[k].nan /\ forecast[k].num < limit}

\* C14: every value of the forecast series is an integer in [15, 95],
\* whatever location, property type and history (generated or supplied, of
\* any length, the empty one included) the run was given.
C14_ForecastInRange ==
    \A k \in 1..Len(forecast) :
        /\ ~forecast[k].nan
        /\ forecast[k].den = 1
        /\ forecast[k].num \in 15..95

\* C15: every occupancy generateHistoricalData produces lies in [10, 95], on
\* every day index, for both market classes and every sampled noise value.
C15_HistoricalInRange ==
    (hi > 0) => hpoint.occupancy \in 10..95

C15_Witness ==
    /\ hi > 0
    /\ hpoint.occupancy = 10
    /\ baseOccupancy(isColombianCoffeeRegion(args.location), hi - 1)
         + randomNoise(args.historicalData.seed, hi - 1) < 10000

\* the rows of the pricing policy table that apply to a season and occupancy
PolicyRows(season, occ) ==
    {row \in {<<"HIGH", 140, "MAXIMIZE_REVENUE", "YIELD">>,
              <<"MEDIUM", 110, "OPTIMIZE_MIX", "YIELD">>,
              <<"LOW<25", 65, "SURVIVAL_PRICING", "VOLUME">>,
              <<"LOW<40", 80, "FILL_INVENTORY", "VOLUME">>,
              <<"LOW>=40", 90, "COMPETITIVE_RATE", "VOLUME">>} :
        \/ row[1] = season
        \/ (season = "LOW" /\ ~occ.nan
              /\ \/ row[1] = "LOW<25" /\ occ.num < 25
                 \/ row[1] = "LOW<40" /\ occ.num >= 25 /\ occ.num < 40
                 \/ row[1] = "LOW>=40" /\ occ.num >= 40)}

\* C16: for every forecast day exactly one row of the policy table applies
\* to its (seasonType, occupancy), and the pricing record carries that row's
\* strategy and revenue focus and recommended_adr = round(baseADR * the row's
\* multiplier).
C16_PolicyTable ==
    (fpc = "done") =>
        \A k \in 1..Len(forecast) :
            LET rec == pricingRecommendations(args, forecast, seasonalPatterns)[k]
                rows == PolicyRows(seasonalPatterns[k], forecast[k])
            IN /\ Cardinality(rows) = 1
               /\ \A row \in rows :
                     /\ rec.pricing_strategy = row[3]
                     /\ rec.revenue_focus = row[4]
                     /\ rec.recommended_adr
                          = roundHundredths(baseADR(args.location, args.hotelType),
                                            row[2])

\* C17: the critical-period list is, in day order, exactly the forecast days
\* with occupancy < 30; each entry carries break_even_occupancy 28 and
\* survival_rate round(baseADR * 0.65); critical_survival_days is their number.
C17_CriticalPeriods ==
    (fpc = "done") =>
        LET list == result.critical_periods_analysis
        IN /\ {list[j].day : j \in 1..Len(list)} = DaysBelow(30)
           /\ \A j \in 1..(Len(list) - 1) : list[j].day < list[j + 1].day
           /\ \A j \in 1..Len(list) :
                 /\ list[j].occupancy = forecast[list[j].day]
                 /\ list[j].break_even_occupancy = 28
                 /\ list[j].survival_rate
                      = (baseADR(args.location, args.hotelType) * 65 + 50) \div 100
           /\ result.forecast_summary.critical_survival_days
                = Cardinality(DaysBelow(30))

C17_Witness ==
    /\ fpc = "done"
    /\ \E k \in 1..Len(forecast) : forecast[k] = Number(29)
    /\ \E k \in 1..Len(forecast) : forecast[k] = Number(30)
    /\ Len(result.critical_periods_analysis) \in 2..(forecastDays - 1)

C19_RecentWeighsMore ==
    (Len(forecast) > 0) =>
        /\ Len(fday.weights) = Min(RecentWindow, fday.n + fday.i)
        /\ fday.recentFrom + Len(fday.weights) = fday.n + fday.i
        /\ \A older, newer \in 1..Len(fday.weights) :
              older < newer => fday.weights[older] <= fday.weights[newer]

\* C20: the seasonal component of a forecast day is the history value 365
\* positions before that day when the history reaches that far back, and the
\* day's autoregressive component otherwise.
C20_SeasonalYearAgoOrAR ==
    (Len(forecast) > 0) =>
        IF fday.n + fday.i - YearAgo >= 0
        THEN /\ fday.fromHistory
             /\ fday.yearAgoIndex = fday.n + fday.i - YearAgo
             /\ fday.seasonalComponent
                  = Number(occupancyHistory(args, fday.n + fday.i - YearAgo))
        ELSE /\ ~fday.fromHistory
             /\ fday.seasonalComponent = fday.arComponent

\* C21: the forecast value reported as day k (k in 1..horizon) has the
\* seasonType, and the seasonalMultiplier, of the season calendar at the
\* date today + k.
C21_CalendarAtReportedDay ==
    /\ \A k \in 1..Len(seasonalPatterns) :
          seasonalPatterns[k] \in {seasonTypeAt(dayOfYearAt(today, k), k - 1),
                                   seasonTypeAt(dayOfYearAt(today, k), k)}
    /\ (Len(forecast) > 0) =>
          /\ fday.dayOfYear = dayOfYearAt(today, Len(forecast))
          /\ fday.seasonalMultiplier
               \in {seasonalMultiplier(seasonTypeAt(fday.dayOfYear, fday.i)),
                    seasonalMultiplier(seasonTypeAt(fday.dayOfYear, fday.i + 1))}

\* C22: for a location that matches none of the region names the forecast
\* does not use the extreme-seasonality overlay: its seasonal multiplier
\* differs from the 1.8 / 1.3 / 0.6 the overlay gives on the same date.
C22_OverlayOnlyForRegion ==
    (Len(forecast) > 0 /\ ~isColombianCoffeeRegion(args.location)) =>
        fday.seasonalMultiplier
          # seasonalMultiplier(seasonTypeAt(fday.dayOfYear, fday.i))

\* the forecast days with a given seasonType
SeasonDays(season) ==
    {k \in 1..Len(seasonalPatterns) : seasonalPatterns[k] = season}

\* C24: the premium-pricing recommendation is emitted exactly when more than
\* 7 forecast days have seasonType HIGH, and the reported high / low season
\* day counts are the numbers of forecast days with seasonType HIGH / LOW
\* (checked on the runs whose forecast values are all numbers).
C24_CountsBySeasonType ==
    (fpc = "done" /\ \A k \in 1..Len(forecast) : ~forecast[k].nan) =>
        /\ (result.actionable_recommendations[1] = "TEMPORADA ALTA DETECTADA")
             <=> (Cardinality(SeasonDays("HIGH")) > 7)
        /\ result.forecast_summary.high_season_days
             = Cardinality(SeasonDays("HIGH"))
        /\ result.forecast_summary.low_season_days
             = Cardinality(SeasonDays("LOW"))

\* C25: with c critical days, cash_flow_priority is the CRITICAL label iff
\* c > 10 and the STABLE one otherwise, and the critical-period
\* recommendation is the severe text iff c > 15, the diversification text
\* iff 5 < c <= 15 and the steady-state text iff c <= 5.
C25_CriticalThresholds ==
    (fpc = "done") =>
        LET c == Cardinality(DaysBelow(30))
            priority == result.revenue_optimization.cash_flow_priority
            text == result.actionable_recommendations[2]
        IN /\ priority \in {"CRITICO", "ESTABLE"}
           /\ (priority = "CRITICO") <=> (c > 10)
           /\ text \in {"PERIODO CRITICO EXTREMO", "Periodo desafiante",
                        "Temporada manejable"}
           /\ (text = "PERIODO CRITICO EXTREMO") <=> (c > 15)
           /\ (text = "Periodo desafiante") <=> (5 < c /\ c <= 15)
           /\ (text = "Temporada manejable") <=> (c <= 5)

C25_Witness ==
    /\ fpc = "done"
    /\ Cardinality(DaysBelow(30)) = 11
    /\ result.revenue_optimization.cash_flow_priority = "CRITICO"
    /\ result.actionable_recommendations[2] = "Periodo desafiante"

\* C30: every forecast day listed as a critical period is priced with a
\* discount: its pricing record has revenue_focus VOLUME, strategy
\* SURVIVAL_PRICING or FILL_INVENTORY and recommended_adr <= baseADR.
C30_CriticalDaysDiscounted ==
    (fpc = "done") =>
        \A j \in 1..Len(result.critical_periods_analysis) :
            LET k == result.critical_periods_analysis[j].day
                rec == pricingRecommendations(args, forecast, seasonalPatterns)[k]
            IN /\ rec.revenue_focus = "VOLUME"
               /\ rec.pricing_strategy \in {"SURVIVAL_PRICING", "FILL_INVENTORY"}
               /\ rec.recommended_adr <= baseADR(args.location, args.hotelType)

\* C23: a second call of extremeSeasonalityARIMA with the same historical
\* input on the same date, whether it is given a fresh array or the array
\* that was passed to the first call, yields the forecast and the seasonType
\* sequence of the first call.
C23_SecondCallSame ==
    (fpc = "repeated") =>
        /\ second.forecast = forecast
        /\ second.seasonalPatterns = seasonalPatterns

\* C26: a well-formed arima_forecasting request to /stream that arrives while
\* the mcp_tools breaker is CLOSED and at least MIN_REQUEST_INTERVAL after the
\* last accepted rate-gate check is answered with the report and leaves the
\* breaker CLOSED with failureCount 0.
C26_SpacedRequestServed ==
    [][(/\ Stream("arima_forecasting", TRUE)
        /\ Forecasting.state = "CLOSED"
        /\ now - lastRequestTime >= MIN_REQUEST_INTERVAL)
          => /\ last'.outcome = "returned"
             /\ Forecasting'.state = "CLOSED"
             /\ Forecasting'.failureCount = 0]_vars

\* C27: in every reachable state, under any interleaving of calls in flight,
\* a breaker is CLOSED if and only if its failureCount is below its
\* threshold.
C27_ClosedIffBelowThreshold ==
    \A k \in BreakerKeys :
        (circuitBreakers[k].state = "CLOSED")
            <=> (circuitBreakers[k].failureCount < circuitBreakers[k].threshold)

C27_Witness ==
    /\ Forecasting.state = "HALF_OPEN"
    /\ Forecasting.failureCount > MCP_THRESHOLD
    /\ Racing # {}
    /\ Abandoned # {}

\* C28: a breaker leaves OPEN only in the step of a call that arrives at
\* now >= nextAttempt (the move to HALF_OPEN); a call admitted earlier that
\* completes while the breaker is OPEN does not change its state.
C28_OpenUntilCooldown ==
    [][\A k \in BreakerKeys :
          (circuitBreakers[k].state = "OPEN" /\ circuitBreakers'[k].state # "OPEN")
             => /\ Entry
                /\ last'.inCall
                /\ now >= circuitBreakers[k].nextAttempt]_vars

\* a step after which the wrapped function has not just failed
NoFailure == last.outcome \notin Failures

\* C29: if from some point on no call of the wrapped function fails any more
\* (it returns within the timeout), calls keep arriving and time keeps
\* passing, then a breaker that is OPEN ends up CLOSED with failureCount 0
\* and stays so.
C29_RecoversAndStaysClosed ==
    (<>[]NoFailure)
        => [](Forecasting.state = "OPEN"
                => <>[](/\ Forecasting.state = "CLOSED"
                        /\ Forecasting.failureCount = 0))

\* the trial call of a breaker that was OPEN has returned and closed it
C29_Witness ==
    /\ Forecasting.state = "CLOSED"
    /\ Forecasting.failureCount = 0
    /\ last.outcome = "returned"
    /\ last.at = "HALF_OPEN"

====
